---- MODULE Spec2Model ----
(***************************************************************************)
(* Model of pin.py: the retrying Spotify client (SpotifyClient._req), the  *)
(* duplicate eliminator (ensure_no_duplicates), the position reconciler    *)
(* (sync_playlist_new), the sync command (cmd_sync) and the pin commands   *)
(* (cmd_pin_add, cmd_pin_remove, cmd_pin_move); of track_select.py and     *)
(* track_search.py: the pinning of a selected track.                       *)
(*                                                                         *)
(* A playlist is a sequence of entries.  An entry is a track identifier    *)
(* (1..NumTracks) or Local, an entry without a track uri (local file,      *)
(* removed track) that get_playlist_items leaves out of its result.        *)
(***************************************************************************)
EXTENDS Integers, Sequences, FiniteSets, TLC

\* ---------------------------------------------------------------- bounds
NumTracks == 2
MaxLen == 3
MaxPos == 4
MaxPins == 2
MaxRuns == 2
BatchPlaylists == 2
MaxEdits == 1

Tracks == 1..NumTracks
Local == 0
None == -1

\* ------------------------------------------------------- list primitives
\* Python list.insert(i, x) with i >= 0: insert before 0-based index i,
\* append when i is past the end.
ListInsert(s, i, x) ==
    LET k == IF i > Len(s) THEN Len(s) ELSE i
    IN  SubSeq(s, 1, k) \o <<x>> \o SubSeq(s, k + 1, Len(s))

\* Python list.pop(i) (the list that is left), 0-based i.
ListPop(s, i) == SubSeq(s, 1, i) \o SubSeq(s, i + 2, Len(s))

\* 0-based index of the first occurrence of uri in uris, or None.
find_index(us, uri) ==
    IF \E i \in 1..Len(us) : us[i] = uri
    THEN (CHOOSE i \in 1..Len(us) :
             us[i] = uri /\ \A j \in 1..(i - 1) : us[j] # uri) - 1
    ELSE None

Elems(s) == {s[i] : i \in 1..Len(s)}

Count(x, s) == Cardinality({i \in 1..Len(s) : s[i] = x})

SeqsUpTo(S, n) == UNION {[1..k -> S] : k \in 0..n}

\* ------------------------------------------------ the remote collection
\* GET /playlists/{id}/tracks as get_playlist_items returns it: all pages
\* in order, the entries without a uri dropped.
get_playlist_items(r) == SelectSeq(r, LAMBDA e : e # Local)

\* POST /playlists/{id}/tracks {"uris": us, "position": pos}: insert the
\* list us before 0-based index pos, append when pos is None.
RemoteAddAccepts(r, pos) == pos = None \/ (pos >= 0 /\ pos <= Len(r))

RemoteAdd(r, us, pos) ==
    IF pos = None THEN r \o us
    ELSE SubSeq(r, 1, pos) \o us \o SubSeq(r, pos + 1, Len(r))

\* PUT /playlists/{id}/tracks {"range_start", "insert_before",
\* "range_length": 1}: the entry at range_start is moved to immediately
\* before the entry that was at insert_before.
RemoteReorderAccepts(r, range_start, insert_before) ==
    /\ range_start >= 0 /\ range_start < Len(r)
    /\ insert_before >= 0 /\ insert_before <= Len(r)

RemoteReorder(r, range_start, insert_before) ==
    LET x    == r[range_start + 1]
        rest == ListPop(r, range_start)
        at   == IF insert_before > range_start
                THEN insert_before - 1 ELSE insert_before
    IN  ListInsert(rest, at, x)

\* DELETE /playlists/{id}/tracks {"tracks": [{"uri": u}...]}: every
\* occurrence of every listed uri is removed.
RemoteRemoveEverything(r, us) == SelectSeq(r, LAMBDA e : FALSE)

RemoteRemoveAll(r, us) == SelectSeq(r, LAMBDA e : e \notin us)

\* ------------------------------------------------ ensure_no_duplicates
DupSetAll(its) == {its[i] : i \in 1..Len(its)}

\* set(dups): the uris met a second time while scanning the snapshot.
DupSet(its) ==
    {its[i] : i \in {j \in 1..Len(its) : \E k \in 1..(j - 1) : its[k] = its[j]}}

\* remove_positions of the second scan: indices of second and later
\* occurrences.
remove_positions(its) ==
    {j \in 1..Len(its) : \E k \in 1..(j - 1) : its[k] = its[j]}

\* unique_order: the uris of the second scan in first-seen order.
RECURSIVE unique_order(_)
unique_order(its) ==
    IF its = <<>> THEN <<>>
    ELSE LET init == unique_order(SubSeq(its, 1, Len(its) - 1))
             x    == its[Len(its)]
         IN  IF x \in Elems(init) THEN init ELSE Append(init, x)

\* ----------------------------------------------------- normalize_track_id
\* A track_id in which no 22-character Spotify id can be found.
BadId == -2

\* The open.spotify.com/track/<id> link of identifier t.
UrlForm(t) == t + 10

RawIds == Tracks \cup {UrlForm(t) : t \in Tracks} \cup {BadId}

\* The spotify:track:<id> uri of a link, a uri or a bare id; None stands
\* for the ValueError raised when no id is recognised.
normalize_track_id(s) ==
    IF s \in Tracks THEN s
    ELSE IF \E t \in Tracks : s = UrlForm(t)
         THEN CHOOSE t \in Tracks : s = UrlForm(t)
         ELSE None

\* ---------------------------------------------------- sync_playlist_new
InsertByPositionFront(p, s) == <<p>> \o s

\* sorted(pins, key=position): stable insertion by position.
RECURSIVE InsertByPosition(_, _)
InsertByPosition(p, s) ==
    IF s = <<>> THEN <<p>>
    ELSE IF p.position <= Head(s).position THEN <<p>> \o s
    ELSE <<Head(s)>> \o InsertByPosition(p, Tail(s))

RECURSIVE SortedPins(_)
SortedPins(ps) ==
    IF ps = <<>> THEN <<>>
    ELSE InsertByPosition(Head(ps), SortedPins(Tail(ps)))

\* insert_before as computed for one pin against the mirror us:
\* max(0, position - 1), replaced by n when position > n (+1 if absent).
InsertBefore(us, uri, position) ==
    LET n   == Len(us)
        cur == find_index(us, uri)
        ib  == IF position - 1 > 0 THEN position - 1 ELSE 0
    IN  IF position > n + (IF cur # None THEN 0 ELSE 1) THEN n ELSE ib

\* desired_idx = min(insert_before, len(uris))
DesiredIdx(us, uri, position) ==
    LET ib == InsertBefore(us, uri, position)
    IN  IF ib < Len(us) THEN ib ELSE Len(us)

\* The position argument of add_tracks:
\* insert_before if insert_before <= n else None.
AddPosition(us, uri, position) ==
    LET ib == InsertBefore(us, uri, position)
    IN  IF ib <= Len(us) THEN ib ELSE None

\* The mirror after an insert: uris.insert(insert_before or n, uri).
MirrorAfterAdd(us, uri, position) ==
    LET ib == InsertBefore(us, uri, position)
    IN  ListInsert(us, IF ib <= Len(us) THEN ib ELSE Len(us), uri)

\* The mirror after a move: pop(current_idx), desired_idx lowered by one
\* when it lay after current_idx, insert(desired_idx, moved_uri).
MirrorAfterMove(us, current_idx, desired_idx) ==
    LET moved_uri == us[current_idx + 1]
        popped    == ListPop(us, current_idx)
        d         == IF desired_idx > current_idx
                     THEN desired_idx - 1 ELSE desired_idx
    IN  ListInsert(popped, d, moved_uri)

\* ------------------------------------------------------------- state
VARIABLES
    registry,   \* registry["playlists"]: the playlist names, in order
    remote,     \* playlist name -> the remote collection
    config,     \* playlist name -> config["pins"], a sequence of pins
    todo,       \* index in registry of the playlist cmd_sync is at
    pc,         \* position in sync_playlist_new / cmd_sync
    items,      \* ensure_no_duplicates: the snapshot it scans
    uris,       \* sync_playlist_new: the local mirror
    pinIdx,     \* index in the sorted pins of the pin to process next
    run,        \* number of the cmd_sync invocation
    calls,      \* mutating calls issued for the current playlist
    last,       \* the pin processed last and what was done for it
    remote0,    \* the collection when sync of the current playlist began
    synced,     \* playlists whose sync_playlist_new returned, this run
    failed,     \* playlists whose sync was aborted by die, this run
    snapid,     \* playlist name -> the remote's current snapshot_id
    snapshot,   \* sync_playlist_new: the snapshot_id it holds
    latest,     \* the snapshot_id the remote returned last to this run
    orig,       \* the collection when the last run after a complete one began
    interrupted, \* a run was ended before its end since orig was taken
    edits,      \* changes made by another editor of the playlist
    session,    \* the interactive pinning session that is open
    pinned_tracks, \* track_select: the uris it lists as pinned
    default,    \* registry["default"]: a playlist name or None
    deleted,    \* the playlist playlist-delete removed last
    url,        \* get_playlist_items: offset of the page to fetch, or None
    norm,       \* get_playlist_items: the list it returns
    \* SpotifyClient
    access_token, \* self._access_token: None or Token
    token_exp,    \* self._token_exp
    now,          \* time.time(), in seconds
    rpc,          \* position in _req
    attempt,      \* the loop variable of _req
    resps,        \* the responses received by the current call of _req
    ret,          \* the response the current call of _req returned
    refreshes,    \* calls of _refresh_access_token during the current call
    grants,       \* the expires_in of each token granted during the call
    validAtStart, \* the call began with a present, unexpired token
    expiry,       \* when the token endpoint lets the held token expire
    sends,        \* the token of each request sent by the current call
    slept         \* the seconds slept after each retried response

tokVars == <<snapid, snapshot, latest>>

histVars == <<orig, interrupted>>

envVars == <<edits, session, pinned_tracks>>

regVars == <<default, deleted>>

pageVars == <<url, norm>>

syncVars == <<registry, remote, config, todo, pc, items, uris, pinIdx, run,
              calls, last, remote0, synced, failed, tokVars, histVars,
              envVars, regVars, pageVars>>

reqVars == <<access_token, token_exp, now, rpc, attempt, resps, ret,
             refreshes, grants, validAtStart, expiry, sends, slept>>

vars == <<syncVars, reqVars>>

cur == registry[todo]

Token == 1
StartTime == 100

\* SpotifyClient.__init__: no token yet.
ClientConstructed ==
    /\ access_token = None
    /\ token_exp = 0
    /\ now = StartTime
    /\ expiry = 0

ReqIdle ==
    /\ rpc = "idle"
    /\ attempt = 0
    /\ resps = <<>>
    /\ ret = None
    /\ refreshes = 0
    /\ grants = <<>>
    /\ validAtStart = FALSE
    /\ sends = <<>>
    /\ slept = <<>>

NoPin == [op |-> "none", uri |-> None, position |-> 0, clamped |-> FALSE,
          moved |-> None, changed |-> FALSE]

NoDelete == [name |-> None, was_default |-> FALSE]

\* The registry has its first playlist as default and nothing was
\* deleted from it.
RegistryAsCreated ==
    /\ default = 1
    /\ deleted = NoDelete

\* No snapshot is being read page by page.
NoSnapshot ==
    /\ url = None
    /\ norm = <<>>

\* No interactive session is open and no other editor has acted.
NoSession ==
    /\ edits = 0
    /\ session = "none"
    /\ pinned_tracks = <<>>

\* Pin lists with one pin per track and one pin per position.
PinLists(tracks, maxPins, maxPos) ==
    {ps \in SeqsUpTo([track_id : tracks, position : 1..maxPos], maxPins) :
        \A i, j \in 1..Len(ps) :
            i # j => /\ ps[i].track_id # ps[j].track_id
                     /\ ps[i].position # ps[j].position}

Collections(tracks, maxLen) == SeqsUpTo(tracks \cup {Local}, maxLen)

InitWith(n, collections, pinLists) ==
    /\ registry = [i \in 1..n |-> i]
    /\ remote \in [1..n -> collections]
    /\ config \in [1..n -> pinLists]
    /\ todo = 1
    /\ pc = "dedup_read"
    /\ items = <<>>
    /\ uris = <<>>
    /\ pinIdx = 0
    /\ run = 1
    /\ calls = <<>>
    /\ last = NoPin
    /\ remote0 = remote[1]
    /\ synced = {}
    /\ failed = {}
    /\ snapid = [i \in 1..n |-> 1]
    /\ snapshot = None
    /\ latest = None
    /\ orig = remote[1]
    /\ interrupted = FALSE
    /\ NoSession
    /\ RegistryAsCreated
    /\ NoSnapshot
    /\ ClientConstructed
    /\ ReqIdle

\* cmd_sync --playlist name, on one managed playlist.
\* Pin lists of a hand-edited config with a track_id that cannot be
\* resolved: alone, before and after a pin that can.
UnresolvablePinLists ==
    {<<[track_id |-> BadId, position |-> 1]>>,
     <<[track_id |-> BadId, position |-> 1], [track_id |-> 1, position |-> 2]>>,
     <<[track_id |-> 1, position |-> 1], [track_id |-> BadId, position |-> 2]>>}

\* A track of the collection that no pin names.
OtherTrack == NumTracks + 1

\* Collections in which a track that is never pinned stands beside the
\* pinned ones: in front of and behind them, with a duplicate, with an
\* entry without uri.
OrderedCollections ==
    {<<2, 1, OtherTrack>>, <<2, 1, OtherTrack, 1>>,
     <<OtherTrack, 1, 1, 2>>, <<Local, OtherTrack, 2, 1>>}

Init ==
    InitWith(1, Collections(Tracks, MaxLen) \cup OrderedCollections,
             PinLists(Tracks, MaxPins, MaxPos) \cup UnresolvablePinLists)

\* The collections and pin lists of the playlists of a batch: empty, with
\* a duplicate, with an unresolvable entry, with a pin that is absent, in
\* place, or to be moved.
BatchCollections == {<<>>, <<1, 1>>, <<Local, 1>>, <<2, 1>>}

BatchPinLists ==
    {<<>>, <<[track_id |-> 1, position |-> 2]>>,
     <<[track_id |-> 2, position |-> 1]>>,
     <<[track_id |-> BadId, position |-> 1], [track_id |-> 2, position |-> 2]>>}

\* cmd_sync over a registry of several playlists.
InitBatch == InitWith(BatchPlaylists, BatchCollections, BatchPinLists)

\* A mutating call: its payload, the snapshot_id it presents (None when
\* it sends none) and the one the remote returned last to this run.
CallRangeOfTwo(op, us, rs, ib, sid, pos) ==
    [op |-> op, uris |-> us, range_start |-> rs, insert_before |-> ib,
     range_length |-> IF op = "reorder" THEN 2 ELSE None,
     snapshot_id |-> sid, latest |-> latest, position |-> pos]

\* pos is the position of the pin the call is made for, None for a call
\* of ensure_no_duplicates; a reorder has range_length 1.
Call(op, us, rs, ib, sid, pos) ==
    [op |-> op, uris |-> us, range_start |-> rs, insert_before |-> ib,
     range_length |-> IF op = "reorder" THEN 1 ELSE None,
     snapshot_id |-> sid, latest |-> latest, position |-> pos]

\* The remote gives the collection a new snapshot_id with every change
\* and returns it in the answer.
Mutated ==
    /\ snapid' = [snapid EXCEPT ![cur] = @ + 1]
    /\ latest' = snapid'[cur]

\* ------------------------------------------- ensure_no_duplicates steps
\* items, snap = sp.get_playlist_items(playlist_id); scan for dups.
DedupRead ==
    /\ pc = "dedup_read"
    /\ items' = get_playlist_items(remote[cur])
    /\ pc' = IF DupSet(items') # {} THEN "dedup_remove" ELSE "snap"
    /\ latest' = snapid[cur]
    /\ UNCHANGED <<registry, remote, config, todo, uris, pinIdx, run, calls,
                   last, remote0, synced, failed, snapid, snapshot,
                   reqVars, histVars, regVars, pageVars, envVars>>

\* sp.remove_all_occurrences(playlist_id, list(set(dups)))
DedupRemove ==
    /\ pc = "dedup_remove"
    /\ remote' = [remote EXCEPT ![cur] = RemoteRemoveAll(@, DupSet(items))]
    /\ calls' = Append(calls, Call("remove", DupSet(items), None, None, None, None))
    /\ Mutated
    /\ pc' = "dedup_reread"
    /\ UNCHANGED <<registry, config, todo, items, uris, pinIdx, run, last,
                   remote0, synced, failed, snapshot,
                   reqVars, histVars, regVars, pageVars, envVars>>

\* items2, _ = sp.get_playlist_items(playlist_id); second scan.
DedupReread ==
    /\ pc = "dedup_reread"
    /\ items' = get_playlist_items(remote[cur])
    /\ pc' = IF remove_positions(items') # {} THEN "dedup_remove2" ELSE "snap"
    /\ UNCHANGED <<registry, remote, config, todo, uris, pinIdx, run, calls,
                   last, remote0, synced, failed, tokVars,
                   reqVars, histVars, regVars, pageVars, envVars>>

\* sp.remove_all_occurrences(playlist_id, [u for u, _ in unique_order])
DedupRemoveAgain ==
    /\ pc = "dedup_remove2"
    /\ remote' = [remote EXCEPT ![cur] = RemoteRemoveAll(@, Elems(items))]
    /\ calls' = Append(calls, Call("remove", Elems(items), None, None, None, None))
    /\ Mutated
    /\ pc' = "dedup_add"
    /\ UNCHANGED <<registry, config, todo, items, uris, pinIdx, run, last,
                   remote0, synced, failed, snapshot,
                   reqVars, histVars, regVars, pageVars, envVars>>

\* sp.add_tracks(playlist_id, [u for u, _ in unique_order], position=None)
DedupAddBack ==
    /\ pc = "dedup_add"
    /\ remote' = [remote EXCEPT ![cur] = RemoteAdd(@, unique_order(items), None)]
    /\ calls' = Append(calls, Call("add", Elems(items), None, None, None, None))
    /\ Mutated
    /\ pc' = "snap"
    /\ UNCHANGED <<registry, config, todo, items, uris, pinIdx, run, last,
                   remote0, synced, failed, snapshot,
                   reqVars, histVars, regVars, pageVars, envVars>>

\* ---------------------------------------------- sync_playlist_new steps
StoredPinsSortedInPlace(ps) == SortedPins(ps)

\* config["pins"] after pins = sorted(config.get("pins", []), ...): sorted
\* builds a new list, the stored one is as it was.
StoredPins(ps) == ps

\* items, snapshot = sp.get_playlist_items(playlist_id); uris = [...];
\* pins = sorted(config.get("pins", []), key=position)
Snapshot ==
    /\ pc = "snap"
    /\ uris' = get_playlist_items(remote[cur])
    /\ pinIdx' = 1
    /\ pc' = "pins"
    /\ snapshot' = snapid[cur]
    /\ latest' = IF calls = <<>> THEN snapid[cur] ELSE latest
    /\ config' = [config EXCEPT ![cur] = StoredPins(@)]
    /\ UNCHANGED <<registry, remote, todo, items, run, calls, last,
                   remote0, synced, failed, snapid,
                   reqVars, histVars, regVars, pageVars, envVars>>

pins == SortedPins(config[cur])

HavePin == pc = "pins" /\ pinIdx <= Len(pins)

pin == pins[pinIdx]

\* uri = normalize_track_id(pin["track_id"])
uri == normalize_track_id(pin.track_id)

\* The pin at hand has a track_id that normalize_track_id accepts.
Resolvable == HavePin /\ uri # None

\* The claim's notion of a pin beyond what the collection can hold, taken
\* against the collection itself.
Beyond(r, p) ==
    p.position > Len(r) + (IF p.track_id \in Elems(r) THEN 0 ELSE 1)

\* current_idx is None: add_tracks, then uris.insert.
PinInsert ==
    /\ Resolvable
    /\ find_index(uris, uri) = None
    /\ LET pos == AddPosition(uris, uri, pin.position)
       IN  /\ RemoteAddAccepts(remote[cur], pos)
           /\ remote' = [remote EXCEPT ![cur] = RemoteAdd(@, <<uri>>, pos)]
           /\ calls' = Append(calls, Call("add", {uri}, None, pos, None,
                                          pin.position))
    /\ Mutated
    /\ snapshot' = snapid'[cur]
    /\ uris' = MirrorAfterAdd(uris, uri, pin.position)
    /\ last' = [op |-> "add", uri |-> uri, position |-> pin.position,
                clamped |-> Beyond(remote[cur], pin),
                moved |-> None, changed |-> remote'[cur] # remote[cur]]
    /\ pinIdx' = pinIdx + 1
    /\ UNCHANGED <<registry, config, todo, pc, items, run, remote0,
                   synced, failed,
                   reqVars, histVars, regVars, pageVars, envVars>>

\* current_idx != desired_idx: reorder, then pop and insert in the mirror.
PinMove ==
    /\ Resolvable
    /\ LET current_idx == find_index(uris, uri)
           desired_idx == DesiredIdx(uris, uri, pin.position)
       IN  /\ current_idx # None
           /\ current_idx # desired_idx
           /\ RemoteReorderAccepts(remote[cur], current_idx, desired_idx)
           /\ remote' = [remote EXCEPT
                           ![cur] = RemoteReorder(@, current_idx, desired_idx)]
           /\ calls' = Append(calls, Call("reorder", {uri},
                                          current_idx, desired_idx, snapshot,
                                          pin.position))
           /\ uris' = MirrorAfterMove(uris, current_idx, desired_idx)
           /\ last' = [op |-> "reorder", uri |-> uri,
                       position |-> pin.position,
                       clamped |-> Beyond(remote[cur], pin),
                       moved |-> remote[cur][current_idx + 1],
                       changed |-> remote'[cur] # remote[cur]]
    /\ Mutated
    /\ snapshot' = snapid'[cur]
    /\ pinIdx' = pinIdx + 1
    /\ UNCHANGED <<registry, config, todo, pc, items, run, remote0,
                   synced, failed,
                   reqVars, histVars, regVars, pageVars, envVars>>

\* current_idx == desired_idx: "skip: already at position".
PinSkip ==
    /\ Resolvable
    /\ find_index(uris, uri) # None
    /\ find_index(uris, uri) = DesiredIdx(uris, uri, pin.position)
    /\ last' = [op |-> "skip", uri |-> uri, position |-> pin.position,
                clamped |-> Beyond(remote[cur], pin),
                moved |-> None, changed |-> FALSE]
    /\ pinIdx' = pinIdx + 1
    /\ UNCHANGED <<registry, remote, config, todo, pc, items, uris, run,
                   calls, remote0, synced, failed, tokVars,
                   reqVars, histVars, regVars, pageVars, envVars>>

\* normalize_track_id raises ValueError for the pin at hand: nothing
\* catches it in sync_playlist_new, cmd_sync or the main block, and the
\* process ends with a traceback.
PinUnresolvable ==
    /\ HavePin
    /\ uri = None
    /\ pc' = "crashed"
    /\ UNCHANGED <<registry, remote, config, todo, items, uris, pinIdx, run,
                   calls, last, remote0, synced, failed, tokVars,
                   reqVars, histVars, regVars, pageVars, envVars>>

\* The for loop over the pins is exhausted: sync_playlist_new returns.
SyncReturn ==
    /\ pc = "pins"
    /\ pinIdx > Len(pins)
    /\ pc' = "done"
    /\ synced' = synced \cup {cur}
    /\ UNCHANGED <<registry, remote, config, todo, items, uris, pinIdx, run,
                   calls, last, remote0, failed, tokVars,
                   reqVars, histVars, regVars, pageVars, envVars>>

\* A remote call is about to be made.
AtRemoteCall ==
    \/ pc \in {"dedup_read", "dedup_remove", "dedup_reread", "dedup_remove2",
               "dedup_add", "snap"}
    \/ /\ Resolvable
       /\ find_index(uris, uri) # DesiredIdx(uris, uri, pin.position)

\* _req returned a response that is not a success (for instance the 503 of
\* the fifth attempt) or the remote rejected the call: the helper calls
\* die, which logs and ends the process with sys.exit.
Die ==
    /\ AtRemoteCall
    /\ pc' = "exited"
    /\ failed' = failed \cup {cur}
    /\ UNCHANGED <<registry, remote, config, todo, items, uris, pinIdx, run,
                   calls, last, remote0, synced, tokVars,
                   reqVars, histVars, regVars, pageVars, envVars>>

\* The sync is somewhere between its first and its last step.
Running ==
    pc \in {"dedup_read", "dedup_remove", "dedup_reread", "dedup_remove2",
            "dedup_add", "snap", "pins"}

\* The process is stopped from outside (Ctrl-C, a signal, power loss)
\* between two steps of the sync.
Terminate ==
    /\ Running
    /\ pc' = "killed"
    /\ UNCHANGED <<registry, remote, config, todo, items, uris, pinIdx, run,
                   calls, last, remote0, synced, failed, tokVars,
                   reqVars, histVars, regVars, pageVars, envVars>>

\* The PUT of reorder presents a snapshot_id that is no longer the
\* collection's and the remote answers with an error status: reorder
\* calls die.
StaleReject ==
    /\ Resolvable
    /\ find_index(uris, uri) # None
    /\ find_index(uris, uri) # DesiredIdx(uris, uri, pin.position)
    /\ snapshot # snapid[cur]
    /\ pc' = "exited"
    /\ failed' = failed \cup {cur}
    /\ last' = [op |-> "rejected", uri |-> uri, position |-> pin.position,
                clamped |-> Beyond(remote[cur], pin),
                moved |-> None, changed |-> FALSE]
    /\ UNCHANGED <<registry, remote, config, todo, items, uris, pinIdx, run,
                   calls, remote0, synced, tokVars,
                   reqVars, histVars, regVars, pageVars, envVars>>

\* Another editor of the playlist (the Spotify app) appends a track
\* while the sync is running.
ExternalEdit ==
    /\ Running
    /\ edits < MaxEdits
    /\ \E t \in Tracks : remote' = [remote EXCEPT ![cur] = Append(@, t)]
    /\ snapid' = [snapid EXCEPT ![cur] = @ + 1]
    /\ edits' = edits + 1
    /\ UNCHANGED <<registry, config, todo, pc, items, uris, pinIdx, run,
                   calls, last, remote0, synced, failed, snapshot, latest,
                   session, pinned_tracks,
                   reqVars, histVars, regVars, pageVars>>

StartSync(i) ==
    /\ todo' = i
    /\ pc' = "dedup_read"
    /\ items' = <<>>
    /\ uris' = <<>>
    /\ pinIdx' = 0
    /\ calls' = <<>>
    /\ last' = NoPin
    /\ remote0' = remote[registry[i]]
    /\ snapshot' = None
    /\ latest' = None

\* cmd_sync: for playlist_name in registry["playlists"]: the next one.
NextPlaylist ==
    /\ pc = "done"
    /\ todo < Len(registry)
    /\ StartSync(todo + 1)
    /\ UNCHANGED <<registry, remote, config, run, synced, failed, snapid,
                   reqVars, histVars, regVars, pageVars, envVars>>

\* cmd_sync: the loop is over, the command returns.
SyncFinished ==
    /\ pc = "done"
    /\ todo = Len(registry)
    /\ pc' = "finished"
    /\ UNCHANGED <<registry, remote, config, todo, items, uris, pinIdx, run,
                   calls, last, remote0, synced, failed, tokVars,
                   reqVars, histVars, regVars, pageVars, envVars>>

\* The next scheduled sync (cron): cmd_sync is invoked again, on the
\* collections as the previous invocation left them.
SyncAgain ==
    /\ pc = "finished"
    /\ run < MaxRuns
    /\ run' = run + 1
    /\ StartSync(1)
    /\ synced' = {}
    /\ failed' = {}
    /\ orig' = remote[registry[1]]
    /\ interrupted' = FALSE
    /\ UNCHANGED <<registry, remote, config, snapid,
                   reqVars, envVars, regVars, pageVars>>

\* The next scheduled sync after an invocation that did not return: it
\* died, was stopped, or ended with a traceback.
SyncAfterAbort ==
    /\ pc \in {"exited", "killed", "crashed"}
    /\ run < MaxRuns
    /\ run' = run + 1
    /\ StartSync(1)
    /\ synced' = {}
    /\ failed' = {}
    /\ interrupted' = TRUE
    /\ UNCHANGED <<registry, remote, config, snapid, orig,
                   reqVars, envVars, regVars, pageVars>>

SyncStep ==
    \/ DedupRead
    \/ DedupRemove
    \/ DedupReread
    \/ Snapshot
    \/ PinInsert
    \/ PinMove
    \/ PinSkip
    \/ PinUnresolvable
    \/ SyncReturn
    \/ SyncFinished
    \/ Die

Next == SyncStep \/ SyncAgain

Spec == Init /\ [][Next]_vars

\* Syncs of which some are ended before their end.
NextRecover == SyncStep \/ SyncAgain \/ Terminate \/ SyncAfterAbort

SpecRecover == Init /\ [][NextRecover]_vars

NextBatch == SyncStep \/ NextPlaylist

SpecBatch == InitBatch /\ [][NextBatch]_vars

\* The collections and pin lists of a sync that runs beside another
\* editor.
InitEdit ==
    InitWith(1, BatchCollections \cup {<<2, 1, 1>>}, BatchPinLists)

NextEdit ==
    \/ SyncStep
    \/ DedupRemoveAgain
    \/ DedupAddBack
    \/ StaleReject
    \/ ExternalEdit

SpecEdit == InitEdit /\ [][NextEdit]_vars

\* ------------------------------------------------------ SpotifyClient
\* for attempt in range(5)
AttemptsOneMore == 5 + 1

Attempts == 5

\* if resp.status_code in (500, 502, 503, 504)
ServerErrorsWithout504 == {500, 502, 503}

ServerErrors == {500, 502, 503, 504}

\* The statuses the API answers with.
Statuses == {200, 404, 401, 429, 500, 502, 503, 504}

\* The Retry-After header of a 429: None when the header is absent.
RetryAfters == {None, 2}

\* "expires_in" of the token endpoint's answer.
ExpiresIns == {30, 62, 3600}

Response(s, ra) == [status |-> s, retry_after |-> ra]

NeedsRefreshAbsent(tok, exp, t) == tok = None

\* _headers: not self._access_token or time.time() > self._token_exp
NeedsRefresh(tok, exp, t) == tok = None \/ t > exp

\* self._token_exp = time.time() + int(expires_in) - 60
TokenExpNoMargin(t, expires_in) == t + expires_in

TokenExp(t, expires_in) == t + expires_in - 60

\* int(resp.headers.get("Retry-After", "1"))
RetrySleep(ra) == IF ra = None THEN 1 ELSE ra

BackoffSleepOneBased(a) == 2 + a

\* time.sleep(1 + attempt)
BackoffSleep(a) == 1 + a

\* A client as an earlier call of the same process left it: a token that
\* is past token_exp, about to pass it, or fresh.
ClientUsed ==
    /\ access_token = Token
    /\ now = StartTime
    /\ token_exp \in {StartTime - 1, StartTime + 2, StartTime + 3540}
    /\ expiry = token_exp + 60

SyncIdle ==
    /\ registry = <<1>>
    /\ remote = <<<<>>>>
    /\ config = <<<<>>>>
    /\ todo = 1
    /\ pc = "idle"
    /\ items = <<>>
    /\ uris = <<>>
    /\ pinIdx = 0
    /\ run = 1
    /\ calls = <<>>
    /\ last = NoPin
    /\ remote0 = <<>>
    /\ synced = {}
    /\ failed = {}
    /\ snapid = <<1>>
    /\ snapshot = None
    /\ latest = None
    /\ orig = <<>>
    /\ interrupted = FALSE
    /\ NoSession
    /\ RegistryAsCreated
    /\ NoSnapshot

InitReq ==
    /\ SyncIdle
    /\ ClientConstructed \/ ClientUsed
    /\ ReqIdle

\* A helper calls self._req(method, path).
ReqStart ==
    /\ rpc = "idle"
    /\ rpc' = "headers"
    /\ attempt' = 0
    /\ validAtStart' = ~NeedsRefresh(access_token, token_exp, now)
    /\ UNCHANGED <<access_token, token_exp, now, resps, ret, refreshes,
                   grants, expiry, sends, slept, syncVars>>

\* The request that goes out with the Authorization header _headers
\* built: the token, the seconds it has left, whether _headers refreshed
\* it, and whether the token held before was absent or had less than 60
\* seconds left.
Sent(fresh) ==
    [token |-> access_token', remaining |-> expiry' - now, fresh |-> fresh,
     due |-> (access_token = None \/ expiry - now < 60)]

\* _headers() with a token that is present and not past token_exp.
HeadersKeep ==
    /\ rpc = "headers"
    /\ ~NeedsRefresh(access_token, token_exp, now)
    /\ rpc' = "send"
    /\ UNCHANGED <<access_token, token_exp, now, attempt, resps, ret,
                   refreshes, grants, validAtStart, expiry, slept, syncVars>>
    /\ sends' = Append(sends, Sent(FALSE))

\* _refresh_access_token with a 200 answer granting expires_in.
Refreshed(expires_in) ==
    /\ access_token' = Token
    /\ token_exp' = TokenExp(now, expires_in)
    /\ expiry' = now + expires_in
    /\ refreshes' = refreshes + 1
    /\ grants' = Append(grants, expires_in)

\* _headers() refreshing first.
HeadersRefresh ==
    /\ rpc = "headers"
    /\ NeedsRefresh(access_token, token_exp, now)
    /\ \E e \in ExpiresIns : Refreshed(e)
    /\ rpc' = "send"
    /\ sends' = Append(sends, Sent(TRUE))
    /\ UNCHANGED <<now, attempt, resps, ret, validAtStart, slept, syncVars>>

\* The loop goes on to the next attempt, or is exhausted: return resp.
Continue ==
    /\ attempt' = attempt + 1
    /\ IF attempt + 1 < Attempts
       THEN rpc' = "headers" /\ UNCHANGED ret
       ELSE rpc' = "returned" /\ ret' = resps'[Len(resps')]

\* 429: sleep Retry-After seconds, continue.
Resp429 ==
    /\ rpc = "send"
    /\ \E ra \in RetryAfters :
          /\ resps' = Append(resps, Response(429, ra))
          /\ now' = now + RetrySleep(ra)
    /\ slept' = Append(slept, now' - now)
    /\ Continue
    /\ UNCHANGED <<access_token, token_exp, refreshes, grants, validAtStart,
                   expiry, sends, syncVars>>

\* 500, 502, 503, 504: sleep 1 + attempt seconds, continue.
Resp5xx ==
    /\ rpc = "send"
    /\ \E st \in ServerErrors : resps' = Append(resps, Response(st, None))
    /\ now' = now + BackoffSleep(attempt)
    /\ slept' = Append(slept, now' - now)
    /\ Continue
    /\ UNCHANGED <<access_token, token_exp, refreshes, grants, validAtStart,
                   expiry, sends, syncVars>>

\* 401: self._refresh_access_token(), continue.
Resp401 ==
    /\ rpc = "send"
    /\ resps' = Append(resps, Response(401, None))
    /\ \E e \in ExpiresIns : Refreshed(e)
    /\ UNCHANGED now
    /\ slept' = Append(slept, now' - now)
    /\ Continue
    /\ UNCHANGED <<validAtStart, sends, syncVars>>

\* Any other status: return resp.
RespReturn ==
    /\ rpc = "send"
    /\ \E st \in Statuses \ ({429, 401} \cup ServerErrors) :
          /\ resps' = Append(resps, Response(st, None))
          /\ ret' = Response(st, None)
    /\ rpc' = "returned"
    /\ UNCHANGED <<access_token, token_exp, now, attempt, refreshes, grants,
                   validAtStart, expiry, sends, slept, syncVars>>

\* The token endpoint does not answer 200 (in _headers, or after a 401
\* that was just received): die.
RefreshDie ==
    /\ \/ rpc = "headers" /\ NeedsRefresh(access_token, token_exp, now)
          /\ UNCHANGED resps
       \/ rpc = "send" /\ resps' = Append(resps, Response(401, None))
    /\ rpc' = "died"
    /\ refreshes' = refreshes + 1
    /\ UNCHANGED <<access_token, token_exp, now, attempt, ret, grants,
                   validAtStart, expiry, sends, slept, syncVars>>

NextReq ==
    \/ ReqStart
    \/ HeadersKeep
    \/ HeadersRefresh
    \/ Resp429
    \/ Resp5xx
    \/ Resp401
    \/ RespReturn
    \/ RefreshDie

SpecReq == InitReq /\ [][NextReq]_vars

\* ------------------------------------------------------- pin management
\* The pin list without the pin at index k.
WithoutIndex(ps, k) == SubSeq(ps, 1, k - 1) \o SubSeq(ps, k + 1, Len(ps))

\* next((p for p in pins if ...), None): the least of the indices S of
\* the pins that pass the test, 0 when there is none.
FirstPin(S) ==
    IF S = {} THEN 0 ELSE CHOOSE i \in S : \A j \in S : i <= j

\* Indices of the pins at pos that belong to another uri than u.
ConflictsAt(ps, u, pos) ==
    {i \in 1..Len(ps) :
        ps[i].position = pos /\ normalize_track_id(ps[i].track_id) # u}

\* Indices of the pins of uri u.
PinsOf(ps, u) == {i \in 1..Len(ps) : normalize_track_id(ps[i].track_id) = u}

\* [p for p in pins if int(p["position"]) != pos]
NotAt(ps, pos) == SelectSeq(ps, LAMBDA p : p.position # pos)

\* cmd_pin_add from the conflict check on: u is the normalized uri, ans
\* the answer to "Replace?" (or --confirm).
PinAdd(ps, u, pos, ans) ==
    LET conflict == FirstPin(ConflictsAt(ps, u, pos))
        kept     == IF conflict # 0 THEN NotAt(ps, pos) ELSE ps
        existed  == FirstPin(PinsOf(kept, u))
    IN  IF conflict # 0 /\ ~ans THEN ps
        ELSE IF existed # 0 THEN [kept EXCEPT ![existed].position = pos]
        ELSE Append(kept, [track_id |-> u, position |-> pos])

\* cmd_pin_remove: every pin of the uri goes.
PinRemove(ps, u) == SelectSeq(ps, LAMBDA p : normalize_track_id(p.track_id) # u)

\* cmd_pin_move from the lookup of the pin on: die when the track has no
\* pin, return when the replacement is refused, else the conflicting pin
\* is dropped and the first pin of the uri gets the position.
PinMoveTo(ps, u, pos, ans) ==
    LET k        == FirstPin(PinsOf(ps, u))
        conflict == FirstPin(ConflictsAt(ps, u, pos))
        moved    == [ps EXCEPT ![k].position = pos]
    IN  IF k = 0 THEN ps
        ELSE IF conflict # 0 /\ ~ans THEN ps
        ELSE IF conflict # 0 THEN WithoutIndex(moved, conflict)
        ELSE moved

\* track_select and handle_track_pinning: any pin at the position goes,
\* the new pin is appended.
PinAt(ps, u, pos) == Append(NotAt(ps, pos), [track_id |-> u, position |-> pos])

\* select_track_position: a position from 1 to total_tracks + 1 comes
\* back when it is free or the replacement is confirmed.
PositionChosen(ps, total_tracks, pos, replace) ==
    /\ pos \in 1..(total_tracks + 1)
    /\ (\E i \in 1..Len(ps) : ps[i].position = pos) => replace

\* The collections of the playlist whose pins are managed.
PinCollections == {<<>>, <<1, Local, 2>>}

InitPins ==
    /\ registry = <<1>>
    /\ remote \in [1..1 -> PinCollections]
    /\ config = <<<<>>>>
    /\ todo = 1
    /\ pc = "idle"
    /\ items = <<>>
    /\ uris = <<>>
    /\ pinIdx = 0
    /\ run = 1
    /\ calls = <<>>
    /\ last = NoPin
    /\ remote0 = remote[1]
    /\ synced = {}
    /\ failed = {}
    /\ snapid = <<1>>
    /\ snapshot = None
    /\ latest = None
    /\ orig = remote[1]
    /\ interrupted = FALSE
    /\ NoSession
    /\ RegistryAsCreated
    /\ NoSnapshot
    /\ ClientConstructed
    /\ ReqIdle

\* What a pin management command leaves alone.
PinsOnly ==
    UNCHANGED <<registry, remote, todo, pc, items, uris, pinIdx, run, calls,
                last, remote0, synced, failed, tokVars, histVars, edits,
                regVars, pageVars,
                reqVars>>

\* pin-add --track track --position pos
cmd_pin_add ==
    /\ session = "none"
    /\ pc = "idle"
    /\ \E track \in RawIds, pos \in 1..MaxPos, ans \in BOOLEAN :
          /\ normalize_track_id(track) # None
          /\ config' = [config EXCEPT
                          ![cur] = PinAdd(@, normalize_track_id(track), pos, ans)]
    /\ UNCHANGED <<session, pinned_tracks>>
    /\ PinsOnly

\* pin-remove --track track
cmd_pin_remove ==
    /\ session = "none"
    /\ pc = "idle"
    /\ \E track \in RawIds :
          /\ normalize_track_id(track) # None
          /\ config' = [config EXCEPT
                          ![cur] = PinRemove(@, normalize_track_id(track))]
    /\ UNCHANGED <<session, pinned_tracks>>
    /\ PinsOnly

\* pin-move --track track --position pos
cmd_pin_move ==
    /\ session = "none"
    /\ pc = "idle"
    /\ \E track \in RawIds, pos \in 1..MaxPos, ans \in BOOLEAN :
          /\ normalize_track_id(track) # None
          /\ config' = [config EXCEPT
                          ![cur] = PinMoveTo(@, normalize_track_id(track), pos, ans)]
    /\ UNCHANGED <<session, pinned_tracks>>
    /\ PinsOnly

\* A command is given a track in which no id is recognised:
\* normalize_track_id raises ValueError before anything is changed.
cmd_pin_bad_track ==
    /\ session = "none"
    /\ pc = "idle"
    /\ \E track \in RawIds : normalize_track_id(track) = None
    /\ pc' = "crashed"
    /\ UNCHANGED <<registry, remote, config, todo, items, uris, pinIdx, run,
                   calls, last, remote0, synced, failed, tokVars, histVars,
                   envVars, regVars, pageVars, reqVars>>

\* The next command is typed.
cmd_again ==
    /\ session = "none"
    /\ pc = "crashed"
    /\ pc' = "idle"
    /\ UNCHANGED <<registry, remote, config, todo, items, uris, pinIdx, run,
                   calls, last, remote0, synced, failed, tokVars, histVars,
                   envVars, regVars, pageVars, reqVars>>

\* track-select: the tracks and the pins are loaded, pinned_tracks is
\* built; the command returns at once when the playlist has no tracks.
track_select_open ==
    /\ session = "none"
    /\ pc = "idle"
    /\ get_playlist_items(remote[cur]) # <<>>
    /\ session' = "track_select"
    /\ pinned_tracks' =
           [i \in 1..Len(config[cur]) |-> normalize_track_id(config[cur][i].track_id)]
    /\ UNCHANGED config
    /\ PinsOnly

\* track-select: a track of the playlist is selected, a position chosen
\* and the preview answered.
track_select_pin ==
    /\ session = "track_select"
    /\ LET tracks == get_playlist_items(remote[cur])
       IN  \E selection \in 1..Len(tracks), pos \in 1..MaxPos,
              replace \in BOOLEAN, confirm \in BOOLEAN :
              LET track_uri == tracks[selection]
              IN  /\ track_uri \notin Elems(pinned_tracks)
                  /\ PositionChosen(config[cur], Len(tracks), pos, replace)
                  /\ IF confirm
                     THEN /\ config' = [config EXCEPT
                                          ![cur] = PinAt(@, track_uri, pos)]
                          /\ pinned_tracks' = Append(pinned_tracks, track_uri)
                     ELSE UNCHANGED <<config, pinned_tracks>>
    /\ UNCHANGED session
    /\ PinsOnly

\* track-select: "q".
track_select_quit ==
    /\ session = "track_select"
    /\ session' = "none"
    /\ pinned_tracks' = <<>>
    /\ UNCHANGED config
    /\ PinsOnly

\* track_search: a track of the search result is selected, a position
\* chosen and the preview answered; handle_track_pinning saves the pin.
track_search_pin ==
    /\ session = "none"
    /\ pc = "idle"
    /\ \E track_uri \in Tracks, pos \in 1..MaxPos, replace \in BOOLEAN :
          /\ PositionChosen(config[cur], Len(get_playlist_items(remote[cur])),
                            pos, replace)
          /\ config' = [config EXCEPT ![cur] = PinAt(@, track_uri, pos)]
    /\ UNCHANGED <<session, pinned_tracks>>
    /\ PinsOnly

NextPins ==
    \/ cmd_pin_add
    \/ cmd_pin_remove
    \/ cmd_pin_move
    \/ cmd_pin_bad_track
    \/ cmd_again
    \/ track_select_open
    \/ track_select_pin
    \/ track_select_quit
    \/ track_search_pin

SpecPins == InitPins /\ [][NextPins]_vars

\* ------------------------------------------------ the playlists registry
\* The playlists the account owns (my_owned_playlists), by number.
NumOwned == 4

Owned == 1..NumOwned

\* safe_name: the characters of the display name other than letters,
\* digits, space, - and _ are dropped, spaces become _, upper case becomes
\* lower case. Two display names can give one safe name, and a display
\* name without any kept character gives the empty name, which is 0 here.
SafeName(p) == p \div 2

\* registry["playlists"] is kept as the list of its entries in insertion
\* order, config as the list of the pins of their config files.
Names(reg) == {reg[i].name : i \in 1..Len(reg)}

IndexOfName(reg, n) == CHOOSE i \in 1..Len(reg) : reg[i].name = n

\* load_playlists_registry without a registry file.
InitRegistry ==
    /\ registry = <<>>
    /\ default = None
    /\ deleted = NoDelete
    /\ remote = <<>>
    /\ config = <<>>
    /\ todo = 1
    /\ pc = "idle"
    /\ items = <<>>
    /\ uris = <<>>
    /\ pinIdx = 0
    /\ run = 1
    /\ calls = <<>>
    /\ last = NoPin
    /\ remote0 = <<>>
    /\ synced = {}
    /\ failed = {}
    /\ snapid = <<>>
    /\ snapshot = None
    /\ latest = None
    /\ orig = <<>>
    /\ interrupted = FALSE
    /\ NoSession
    /\ NoSnapshot
    /\ ClientConstructed
    /\ ReqIdle

RegistryOnly ==
    UNCHANGED <<remote, todo, pc, items, uris, pinIdx, run, calls, remote0,
                synced, failed, tokVars, histVars, envVars, pageVars,
                reqVars>>

Outcome(op) == [NoPin EXCEPT !.op = op]

\* The body cmd_playlist_create and cmd_select_playlist share: choice sel
\* among the owned playlists, answer ans to "Overwrite?".
Register(sel, ans, op) ==
    LET safe_name == SafeName(sel)
        entry == [name |-> safe_name, playlist_id |-> sel]
        exists == safe_name \in Names(registry)
    IN  /\ deleted' = deleted
        /\ IF sel \notin Owned
           THEN /\ last' = Outcome("died")
                /\ UNCHANGED <<registry, config, default>>
           ELSE IF exists /\ ans # "y"
           THEN /\ last' = Outcome("cancelled")
                /\ UNCHANGED <<registry, config, default>>
           ELSE /\ config' = IF exists
                             THEN [config EXCEPT
                                      ![IndexOfName(registry, safe_name)] = <<>>]
                             ELSE Append(config, <<>>)
                /\ registry' = IF exists
                               THEN [registry EXCEPT
                                        ![IndexOfName(registry, safe_name)] = entry]
                               ELSE Append(registry, entry)
                /\ default' = IF default = None THEN safe_name ELSE default
                /\ last' = Outcome(op)

cmd_playlist_create ==
    /\ \E sel \in 0..NumOwned, ans \in {"y", "n"} : Register(sel, ans, "created")
    /\ RegistryOnly

cmd_select_playlist ==
    /\ \E sel \in 0..NumOwned, ans \in {"y", "n"} : Register(sel, ans, "selected")
    /\ RegistryOnly

cmd_playlist_set_default ==
    /\ \E sel \in 0..NumOwned :
          IF registry = <<>> \/ sel \notin 1..Len(registry)
          THEN /\ last' = Outcome("died")
               /\ UNCHANGED default
          ELSE /\ default' = registry[sel].name
               /\ last' = Outcome("default")
    /\ UNCHANGED <<registry, config, deleted>>
    /\ RegistryOnly

DefaultAfterDeleteKeep(d, chosen_name, rest) == d

\* registry["default"] after del registry["playlists"][chosen_name].
DefaultAfterDelete(d, chosen_name, rest) ==
    IF d = chosen_name
    THEN IF rest # <<>> THEN rest[1].name ELSE None
    ELSE d

cmd_playlist_delete ==
    /\ \E sel \in 0..NumOwned, ans \in {"y", "n"} :
          IF registry = <<>> \/ sel \notin 1..Len(registry)
          THEN /\ last' = Outcome("died")
               /\ UNCHANGED <<registry, config, default, deleted>>
          ELSE IF ans # "y"
          THEN /\ last' = Outcome("cancelled")
               /\ UNCHANGED <<registry, config, default, deleted>>
          ELSE /\ config' = ListPop(config, sel - 1)
               /\ registry' = ListPop(registry, sel - 1)
               /\ default' = DefaultAfterDelete(default, registry[sel].name,
                                                registry')
               /\ deleted' = [name |-> registry[sel].name,
                              was_default |-> default = registry[sel].name]
               /\ last' = Outcome("deleted")
    /\ RegistryOnly

NextRegistry ==
    \/ cmd_playlist_create
    \/ cmd_select_playlist
    \/ cmd_playlist_set_default
    \/ cmd_playlist_delete

SpecRegistry == InitRegistry /\ [][NextRegistry]_vars

\* ------------------------------------ SpotifyClient.get_playlist_items
\* The limit of the page request (limit=100), scaled.
PageLimit == 2

Min(a, b) == IF a < b THEN a ELSE b

\* data["items"] of the page that starts at an offset of the collection.
Page(r, offset) == SubSeq(r, offset + 1, Min(offset + PageLimit, Len(r)))

NextUrlNone(r, offset) == None

\* data.get("next"): the link to the page behind this one, None on the
\* last page.
NextUrl(r, offset) ==
    IF offset + PageLimit < Len(r) THEN offset + PageLimit ELSE None

\* norm: the items that have a track uri, in order.
Normalize(its) == SelectSeq(its, LAMBDA it : it # Local)

InitSnap ==
    /\ registry = <<1>>
    /\ remote \in [1..1 -> Collections(Tracks, MaxLen) \cup OrderedCollections]
    /\ config = <<<<>>>>
    /\ todo = 1
    /\ pc = "idle"
    /\ items = <<>>
    /\ uris = <<>>
    /\ pinIdx = 0
    /\ run = 1
    /\ calls = <<>>
    /\ last = NoPin
    /\ remote0 = remote[1]
    /\ synced = {}
    /\ failed = {}
    /\ snapid = <<1>>
    /\ snapshot = None
    /\ latest = None
    /\ orig = remote[1]
    /\ interrupted = FALSE
    /\ NoSession
    /\ RegistryAsCreated
    /\ NoSnapshot
    /\ ClientConstructed
    /\ ReqIdle

SnapOnly ==
    UNCHANGED <<registry, remote, config, todo, pinIdx, run, calls, last,
                remote0, synced, failed, snapid, latest, histVars, envVars,
                regVars, reqVars>>

\* items = []; url = "/playlists/{pid}/tracks?limit=100&..."; snapshot_id = None
SnapStart ==
    /\ pc = "idle"
    /\ items' = <<>>
    /\ url' = 0
    /\ snapshot' = None
    /\ pc' = "fetch"
    /\ UNCHANGED <<uris, norm>>
    /\ SnapOnly

\* One turn of while url: with a 200 response: the snapshot_id of the
\* first page is kept, the items are appended, url becomes the next link.
FetchPage ==
    /\ pc = "fetch"
    /\ url # None
    /\ snapshot' = IF snapshot = None THEN snapid[cur] ELSE snapshot
    /\ items' = items \o Page(remote[cur], url)
    /\ url' = NextUrl(remote[cur], url)
    /\ UNCHANGED <<pc, uris, norm>>
    /\ SnapOnly

FetchFailReturnsPartial ==
    /\ pc = "fetch"
    /\ url # None
    /\ url' = None
    /\ UNCHANGED <<pc, items, snapshot, uris, norm>>
    /\ SnapOnly

\* One turn of while url: with another response than 200: die.
FetchFail ==
    /\ pc = "fetch"
    /\ url # None
    /\ pc' = "exited"
    /\ UNCHANGED <<items, url, snapshot, uris, norm>>
    /\ SnapOnly

\* The loop is left with url None: norm is built and returned.
SnapReturn ==
    /\ pc = "fetch"
    /\ url = None
    /\ norm' = Normalize(items)
    /\ pc' = "returned"
    /\ UNCHANGED <<items, url, snapshot, uris>>
    /\ SnapOnly

\* The caller: items, snapshot = sp.get_playlist_items(playlist_id);
\* uris = [it["uri"] for it in items]
SnapReceived ==
    /\ pc = "returned"
    /\ uris' = norm
    /\ pc' = "received"
    /\ UNCHANGED <<items, url, snapshot, norm>>
    /\ SnapOnly

NextSnap == SnapStart \/ FetchPage \/ FetchFail \/ SnapReturn \/ SnapReceived

SpecSnap == InitSnap /\ [][NextSnap]_vars

\* ------------------------------------------------------------ properties
\* No unresolvable entry and no identifier twice.
Distinct(r) == Local \notin Elems(r) /\ \A x \in Elems(r) : Count(x, r) = 1

HadDups == DupSet(get_playlist_items(remote0)) # {}

\* x is at the end of r as far as pins allow: every entry behind it is a
\* pinned identifier with a larger position.
AtEnd(r, ps, p) ==
    LET idx == find_index(r, p.track_id)
    IN  /\ idx # None
        /\ \A j \in (idx + 2)..Len(r) :
              \E k \in 1..Len(ps) :
                  ps[k].track_id = r[j] /\ ps[k].position > p.position

\* C1 (as claimed): convergence. When sync_playlist_new has returned for a
\* collection that began as N distinct items, every pinned identifier is at
\* index position-1, or at the end when its position exceeds the length.
C1_Convergence ==
    (pc = "done" /\ Distinct(remote0)) =>
        \A i \in 1..Len(config[cur]) :
            LET p == config[cur][i]
            IN  \/ find_index(remote[cur], p.track_id) = p.position - 1
                \/ /\ p.position > Len(remote[cur])
                   /\ AtEnd(remote[cur], config[cur], p)

\* C2 (as claimed): idempotence. A sync that follows a completed sync of
\* the same pins issues no mutating call.
C2_SecondRunNoCalls == run >= 2 => calls = <<>>

\* C3 (as claimed): mirror invariant. After a successful add_tracks or
\* reorder of the reconciler the mirror uris equals the ordering of the
\* remote collection, as a snapshot taken at that moment would return it.
C3_MirrorEqualsRemote ==
    last.op \in {"add", "reorder"} => uris = get_playlist_items(remote[cur])

\* C4 (as claimed): when the collection had duplicates, after
\* ensure_no_duplicates it holds exactly one occurrence of every identifier
\* that was present before and nothing twice.
C4_DedupKeepsOneCopy ==
    (pc = "snap" /\ HadDups) =>
        \A x \in Tracks :
            Count(x, remote[cur]) = (IF x \in Elems(remote0) THEN 1 ELSE 0)

\* C5 (as claimed): when the snapshot had duplicates, after
\* ensure_no_duplicates every occurrence of the duplicated identifiers is
\* gone from where it was and one copy of each is at the end, in the order
\* of first occurrence.
C5_DedupRelocates ==
    (pc = "snap" /\ HadDups) =>
        LET its  == get_playlist_items(remote0)
            D    == DupSet(its)
            tail == unique_order(SelectSeq(its, LAMBDA e : e \in D))
        IN  remote[cur] = RemoteRemoveAll(remote0, D) \o tail

\* C6 (as claimed): in a batch sync, when the sync of one playlist is
\* aborted by a failed remote call, the other playlists of the registry
\* are still synced by the time the command is over.
C6_FailureContained ==
    pc \in {"exited", "finished"} =>
        \A p \in Elems(registry) : p \in synced \/ p \in failed

\* The last entry of r that has an identifier.
LastItem(r) ==
    LET its == get_playlist_items(r)
    IN  IF its = <<>> THEN None ELSE its[Len(its)]

\* C10 (as claimed): a pin beyond what the collection can hold is placed
\* at the current end of the collection: once it is processed, no
\* identifier comes after the pinned one.
C10_ClampedAtEnd ==
    (last.op # "none" /\ last.clamped) => LastItem(remote[cur]) = last.uri

\* The same two statements on collections without unresolvable entries.
MirrorEqualsRemoteResolvable ==
    (last.op \in {"add", "reorder"} /\ Local \notin Elems(remote0))
        => uris = remote[cur]

ClampedAtEndResolvable ==
    (last.op # "none" /\ last.clamped /\ Local \notin Elems(remote0)) =>
        LastItem(remote[cur]) = last.uri

StatusesOf(rs) == [i \in 1..Len(rs) |-> rs[i].status]

Retried(st) == st \in {429, 500, 502, 503, 504, 401}

\* C7: one call of _req sends at most 5 requests: it never has more than 5
\* responses, it is never about to send once 5 were received, and a call
\* that received 5 is over.
C7_AttemptBudget ==
    /\ Len(resps) <= 5
    /\ rpc \in {"headers", "send"} => Len(resps) < 5
    /\ Len(resps) = 5 => rpc \in {"returned", "died"}

\* A call that spent its whole budget on a mix of 429, 5xx and 401.
C7_Witness ==
    /\ rpc = "returned"
    /\ Len(resps) = 5
    /\ {429, 503, 401} \subseteq Elems(StatusesOf(resps))

\* C8: the response _req returns is the last one received; every response
\* before it had a retried status; and it either has a status that is not
\* retried or is the response of the 5th attempt.
C8_ReturnedResponse ==
    rpc = "returned" =>
        /\ resps # <<>>
        /\ ret = resps[Len(resps)]
        /\ \A i \in 1..(Len(resps) - 1) : Retried(resps[i].status)
        /\ ~Retried(ret.status) \/ Len(resps) = 5

\* A call that returns the 5th response after five retried ones, the last
\* a 429 with its Retry-After header.
C8_Witness ==
    /\ rpc = "returned"
    /\ Len(resps) = 5
    /\ \A i \in 1..5 : Retried(resps[i].status)
    /\ ret = Response(429, 2)

DedupResult(r) ==
    LET its == get_playlist_items(r)
    IN  IF DupSet(its) # {} THEN RemoteRemoveAll(r, DupSet(its)) ELSE r

\* The for loop of sync_playlist_new over the sorted pins ps, on the
\* collection r with the mirror us.
RECURSIVE Reconcile(_, _, _)
Reconcile(r, us, ps) ==
    IF ps = <<>> THEN r
    ELSE LET u == normalize_track_id(Head(ps).track_id)
             position    == Head(ps).position
             current_idx == find_index(us, u)
             desired_idx == DesiredIdx(us, u, position)
         IN  IF current_idx = None
             THEN Reconcile(RemoteAdd(r, <<u>>, AddPosition(us, u, position)),
                            MirrorAfterAdd(us, u, position), Tail(ps))
             ELSE IF current_idx # desired_idx
             THEN Reconcile(RemoteReorder(r, current_idx, desired_idx),
                            MirrorAfterMove(us, current_idx, desired_idx),
                            Tail(ps))
             ELSE Reconcile(r, us, Tail(ps))

\* sync_playlist_new from the collection r with the pins ps, run to its
\* end with every remote call answered.
UninterruptedRun(r, ps) ==
    LET d == DedupResult(r)
    IN  Reconcile(d, get_playlist_items(d), SortedPins(ps))

\* C11 (as claimed): recovery after termination. When a run was ended
\* between two of its remote calls and the next run with the same pins
\* goes to its end, the collection is the one that a single uninterrupted
\* run from the original collection produces.
C11_RecoveryAfterTermination ==
    (pc = "finished" /\ interrupted) =>
        remote[cur] = UninterruptedRun(orig, config[cur])

\* The same statement on collections without unresolvable entries.
RecoveryResolvable ==
    (pc = "finished" /\ interrupted /\ Local \notin Elems(orig)) =>
        remote[cur] = UninterruptedRun(orig, config[cur])

\* The function agrees with the steps: a run that was not interrupted
\* ends in UninterruptedRun of the collection it began with.
RunIsUninterruptedRun ==
    (pc = "finished" /\ ~interrupted) =>
        remote[cur] = UninterruptedRun(orig, config[cur])

\* C12 (as claimed): every reorder issued by sync_playlist_new moves the
\* identifier it intends to move: the entry at range_start in the remote
\* collection is that identifier, never an entry without a uri.
C12_MovesIntended ==
    last.op = "reorder" => (last.moved # Local /\ last.moved = last.uri)

\* C14 (as claimed): every mutating call of a run presents the
\* snapshot_id returned by the most recent mutating call before it in the
\* run, or the one of the snapshot when there was none.
C14_LatestToken ==
    \A i \in 1..Len(calls) : calls[i].snapshot_id = calls[i].latest

\* C15 (as claimed): every reorder issued by sync_playlist_new changes the
\* ordering of the remote collection.
C15_ReorderChanges == last.op = "reorder" => last.changed

\* The same statement on collections without unresolvable entries.
ReorderChangesResolvable ==
    (last.op = "reorder" /\ Local \notin Elems(remote0)) => last.changed

\* C16 (as claimed): when the pins hold one whose track_id cannot be
\* resolved, a sync that is over without a failed remote call has
\* processed every pin that can be resolved.
C16_UnresolvableSkipped ==
    (pc \in {"done", "finished", "crashed"}
        /\ \E i \in 1..Len(pins) : normalize_track_id(pins[i].track_id) = None)
    => \A i \in 1..Len(pins) :
           normalize_track_id(pins[i].track_id) # None => i < pinIdx

\* C17 (as claimed): a call rejected for a stale snapshot_id does not end
\* the run: the run goes on, from a fresh snapshot.
C17_StaleRefetch == ~(pc = "exited" /\ last.op = "rejected")

\* No uri occurs twice in its.
NoRepeats(its) == \A x \in Elems(its) : Count(x, its) = 1

\* C18: when no uri occurs more than once in the snapshot,
\* ensure_no_duplicates has issued no mutating call when it returns and
\* the remote collection is as it was.
C18_DedupNoOp ==
    (pc = "snap" /\ NoRepeats(get_playlist_items(remote0))) =>
        /\ calls = <<>>
        /\ remote[cur] = remote0

\* ensure_no_duplicates has returned on a collection of two uris and an
\* entry without one.
C18_Witness ==
    /\ pc = "snap"
    /\ remote0 = <<1, Local, 2>>
    /\ remote[cur] = remote0
    /\ calls = <<>>

\* C19 (as claimed): every request _req sends carries a token that exists
\* and has at least 60 seconds left, and the token was refreshed first
\* exactly when it was absent or had less than 60 seconds left.
C19_ValidSession ==
    \A i \in 1..Len(sends) :
        /\ sends[i].token # None
        /\ sends[i].remaining >= 60
        /\ sends[i].fresh <=> sends[i].due

\* C19 (amended): every request _req sends carries a token that exists;
\* the token has at least 60 seconds left or was granted by a refresh made
\* by _headers for this very request, in which case it has the whole
\* expires_in it was granted with; and _headers refreshes exactly when the
\* token is absent or has less than 60 seconds left.
C19_ValidOrJustRefreshed ==
    \A i \in 1..Len(sends) :
        /\ sends[i].token # None
        /\ sends[i].remaining >= 60 \/ sends[i].fresh
        /\ sends[i].fresh => sends[i].remaining \in ExpiresIns
        /\ sends[i].fresh <=> sends[i].due

\* A call that sent one request with a kept token that had more than 60
\* seconds left and one with a token just granted for less than 60.
C19_Witness ==
    /\ \E i \in 1..Len(sends) : ~sends[i].fresh /\ sends[i].remaining >= 60
    /\ \E i \in 1..Len(sends) : sends[i].fresh /\ sends[i].remaining < 60

\* C20: after the response of attempt i (0-based) _req sleeps the seconds
\* of Retry-After (1 without the header) for a 429, 1 + i seconds for a
\* 500, 502, 503 or 504, and not at all for a 401.
C20_BackoffSchedule ==
    \A k \in 1..Len(resps) :
        (Retried(resps[k].status) /\ ~(rpc = "died" /\ k = Len(resps))) =>
            /\ k <= Len(slept)
            /\ slept[k] =
                 CASE resps[k].status = 429 ->
                          IF resps[k].retry_after = None
                          THEN 1 ELSE resps[k].retry_after
                   [] resps[k].status \in {500, 502, 503, 504} -> 1 + (k - 1)
                   [] resps[k].status = 401 -> 0

\* A call that slept 1 after a 429 without Retry-After, 2 after a 429 with
\* Retry-After: 2, 3 after the 503 of attempt 2, and not after a 401.
C20_Witness ==
    /\ rpc = "returned"
    /\ resps = <<Response(429, None), Response(429, 2), Response(503, None),
                 Response(401, None), Response(200, None)>>
    /\ slept = <<1, 2, 3, 0>>

\* C13 (as claimed): no two pins of the playlist have the same position.
C13_UniquePositions ==
    \A i, j \in 1..Len(config[cur]) :
        i # j => config[cur][i].position # config[cur][j].position

\* No uri has two pins.
OnePinPerTrack ==
    \A i, j \in 1..Len(config[cur]) :
        i # j => config[cur][i].track_id # config[cur][j].track_id

\* Positions stay unique for as long as no uri has two pins.
UniquePositionsWhileOnePerTrack ==
    [][(OnePinPerTrack /\ OnePinPerTrack' /\ C13_UniquePositions)
           => C13_UniquePositions']_vars

\* C29 (as claimed): no identifier has more than one pin.
C29_OnePinPerTrack ==
    \A i, j \in 1..Len(config[cur]) :
        i # j => normalize_track_id(config[cur][i].track_id)
                     # normalize_track_id(config[cur][j].track_id)

\* Without track_search no identifier gets a second pin: a step of any
\* other command that starts with one pin per track ends with one.
OnePinPerTrackButSearch ==
    [][(OnePinPerTrack /\ ~track_search_pin) => OnePinPerTrack']_vars

\* C23: a run of sync_playlist_new leaves config["pins"] as it is: no step
\* of the sync changes the pins, their positions or their order in the
\* stored list.
C23_PinsReadOnly == [][config' = config]_vars

\* A sync that made calls is over and the pins are stored in descending
\* order of position, as they were.
C23_Witness ==
    /\ pc = "finished"
    /\ calls # <<>>
    /\ config[cur] = <<[track_id |-> 1, position |-> 2],
                       [track_id |-> 2, position |-> 1]>>

\* C24: the step that processes one pin issues exactly one add_tracks when
\* the uri is absent from the mirror, exactly one reorder with
\* range_length 1 when it is at another index than the desired one, and no
\* call when it is at the desired index.
C24_OneCallPerPin ==
    [][(pc = "pins" /\ pinIdx' = pinIdx + 1) =>
          LET u == normalize_track_id(pins[pinIdx].track_id)
              current_idx == find_index(uris, u)
              desired_idx == DesiredIdx(uris, u, pins[pinIdx].position)
              made == SubSeq(calls', Len(calls) + 1, Len(calls'))
          IN  /\ SubSeq(calls', 1, Len(calls)) = calls
              /\ IF current_idx = None
                 THEN Len(made) = 1 /\ made[1].op = "add"
                 ELSE IF current_idx # desired_idx
                 THEN /\ Len(made) = 1
                      /\ made[1].op = "reorder"
                      /\ made[1].range_length = 1
                 ELSE made = <<>>]_vars

\* A sync of two pins that made one add_tracks for the first and one
\* reorder for the second.
C24_Witness ==
    /\ pc = "done"
    /\ Len(pins) = 2
    /\ Len(calls) = 2
    /\ calls[1].op = "add"
    /\ calls[2].op = "reorder"

\* C26: the mutating calls of a run that are made for pins come in
\* non-decreasing order of the position of their pin, whatever the order
\* of the pins in the config.
C26_AscendingOrder ==
    \A i, j \in 1..Len(calls) :
        (i < j /\ calls[i].position # None /\ calls[j].position # None)
            => calls[i].position <= calls[j].position

\* Two calls were made for pins that the config stores in descending
\* order of position.
C26_Witness ==
    /\ pc = "done"
    /\ Len(config[cur]) = 2
    /\ config[cur][1].position > config[cur][2].position
    /\ Len(calls) = 2
    /\ calls[1].position = config[cur][2].position
    /\ calls[2].position = config[cur][1].position

\* The identifiers that occur exactly once in a list of items.
Singles(its) == {x \in Elems(its) : Count(x, its) = 1}

\* C25: after ensure_no_duplicates on a collection with duplicates, the
\* identifiers that occurred exactly once are all still present, in the
\* same relative order as before.
C25_DedupKeepsOthers ==
    (pc = "snap" /\ HadDups) =>
        LET before == get_playlist_items(remote0)
            after == get_playlist_items(remote[cur])
        IN  SelectSeq(after, LAMBDA e : e \in Singles(before))
                = SelectSeq(before, LAMBDA e : e \in Singles(before))

\* ensure_no_duplicates is over on a collection that had a duplicate and
\* two identifiers that occurred once.
C25_Witness ==
    /\ pc = "snap"
    /\ remote0 = <<2, 1, OtherTrack, 1>>
    /\ get_playlist_items(remote[cur]) = <<2, OtherTrack>>

\* Pin k of the run sits at index position-1 of the collection's items.
Placed(r, k) ==
    find_index(get_playlist_items(r), normalize_track_id(pins[k].track_id))
        = pins[k].position - 1

\* C27 (as claimed): a pin that was processed and sits at index
\* position-1 keeps that index while the later pins of the run are
\* processed.
C27_PlacedStaysPlaced ==
    [][(pc = "pins" /\ pinIdx' = pinIdx + 1) =>
          \A k \in 1..(pinIdx - 1) :
              Placed(remote[cur], k) => Placed(remote'[cur], k)]_vars

\* C28 (as claimed): after sync_playlist_new on a duplicate-free
\* collection the collection holds the identifiers it had plus the pinned
\* ones that were absent, each once, and the identifiers that are not
\* pinned keep their relative order.
C28_OnlyPinnedTouched ==
    (pc = "done" /\ NoRepeats(get_playlist_items(remote0))) =>
        LET before == get_playlist_items(remote0)
            after == get_playlist_items(remote[cur])
            pinned == {normalize_track_id(pins[k].track_id) :
                           k \in 1..Len(pins)}
        IN  /\ Elems(after) = Elems(before) \cup pinned
            /\ NoRepeats(after)
            /\ Len(after) = Len(before) + Cardinality(pinned \ Elems(before))
            /\ SelectSeq(after, LAMBDA e : e \notin pinned)
                   = SelectSeq(before, LAMBDA e : e \notin pinned)

\* On a collection in which every entry has a uri the reconciler touches
\* only the pinned identifiers.
OnlyPinnedTouchedResolvable == (Local \notin Elems(remote0)) => C28_OnlyPinnedTouched

\* C21: get_playlist_items follows the next links until there is none and
\* returns every entry that has an identifier, from all pages, in the
\* order in which the remote collection holds them.
C21_SnapshotComplete ==
    pc \in {"returned", "received"} =>
        /\ url = None
        /\ norm = SelectSeq(remote[cur], LAMBDA e : e # Local)

\* A snapshot of two pages with an entry without uri on the first one was
\* returned.
C21_Witness ==
    /\ pc = "returned"
    /\ remote[cur] = <<1, Local, 2>>
    /\ norm = <<1, 2>>

\* C22: when a page fetch ends with another response than 200 the
\* snapshot is aborted and nothing is handed to the caller; a list that
\* is handed to the caller was built from all pages, so no call is
\* computed from a partial ordering.
C22_NoPartialSnapshot ==
    /\ pc = "exited" => (norm = <<>> /\ uris = <<>> /\ calls = <<>>)
    /\ pc \in {"returned", "received"} => Len(items) = Len(remote[cur])

\* The fetch of the second page failed: the first page had been read, the
\* run is over and the caller has no list.
C22_Witness ==
    /\ pc = "exited"
    /\ items # <<>>
    /\ Len(items) < Len(remote[cur])
    /\ uris = <<>>

\* C30: from the empty registry on, after any sequence of playlist-create,
\* select-playlist, playlist-set-default and playlist-delete, the default
\* is the name of a playlist of the registry when the registry has one,
\* and is None exactly when the registry has none.
C30_DefaultValid ==
    /\ registry # <<>> => default \in Names(registry)
    /\ default = None <=> registry = <<>>

\* The default playlist was deleted while another one was left, and the
\* playlist whose safe name is empty has become the default.
C30_Witness ==
    /\ deleted.was_default
    /\ registry # <<>>
    /\ default = 0
    /\ default # deleted.name

====
